---- MODULE Spec2Model ----
(***************************************************************************)
(* Model of the HuBMAP DRS service: the registry (tables manifest and      *)
(* files), the synchronisation script utils/sync_drs.py (run_sync and      *)
(* execute_sync_operations) and the resolver of app.py (get_drs_object).   *)
(*                                                                         *)
(* A table is a set of rows.  manifest and files are the COMMITTED         *)
(* contents, what any other database session reads; txManifest and         *)
(* txFiles are the contents as seen inside the connection opened by        *)
(* execute_sync_operations (pymysql, autocommit off).                      *)
(***************************************************************************)
EXTENDS Integers, FiniteSets, Sequences, TLC

\* ---------------------------------------------------------------- bounds
NumDatasets == 2
NumFiles == 3
NumIds == 2
MaxPathLen == 5
MaxSixtyFourths == 96

Datasets == 1..NumDatasets
FileIds == 1..NumFiles

\* ------------------------------------------------------------ identifiers
\* A dataset has two identifiers: the Search API hit _id (uuid) and
\* _source.hubmap_id.  They are different strings.
Uuid(d) == <<"uuid", d>>
HubmapId(d) == <<"HBM", d>>
FileUuid(f) == <<"file", f>>

\* The dataset under which the UUID API lists file f, and the file's size.
Parent(f) == ((f - 1) % NumDatasets) + 1
FileSize(f) == 512 * f

\* One hit of the Search API, after the renaming of the columns.
SearchRow(d) == [uuid |-> Uuid(d), hubmap_id |-> HubmapId(d)]

\* One entry of the UUID API listing of dataset d, with dataset_uuid set.
FileInfo(f, d) == [uuid |-> FileUuid(f), dataset_uuid |-> Uuid(d), size |-> FileSize(f)]

\* ------------------------------------------------------------- size codec
RECURSIVE SumSizes(_)
SumSizes(rows) ==
    IF rows = {} THEN 0
    ELSE LET r == CHOOSE x \in rows : TRUE
         IN  r.size + SumSizes(rows \ {r})

\* A formatted size "<num><unit>": tenths is the number in tenths when it is
\* printed with one decimal ("1.5K" is 15 tenths), and the integer itself
\* when it is printed without ("512B").
Pretty(tenths, frac, unit) == [num |-> tenths, frac |-> frac, unit |-> unit]

\* Python round(n / unit, 1) in tenths: n / unit is exact for a power of two,
\* and round() rounds an exact tie to the even digit.
\* 10 * n = t * unit + rest is computed from the remainder of n in steps of
\* 1024, so that no intermediate value leaves the integers of the checker
\* (unit is 2^10, 2^20 or 2^30).
PyRound1(n, unit) ==
    LET r == n % unit
        x == (10 * (r \div 1024)) + ((10 * (r % 1024)) \div 1024)
        t == (10 * (n \div unit)) + (x \div (unit \div 1024))
        rest == ((x % (unit \div 1024)) * 1024) + ((10 * (r % 1024)) % 1024)
    IN  IF 2 * rest > unit THEN t + 1
        ELSE IF 2 * rest < unit THEN t
        ELSE IF t % 2 = 0 THEN t ELSE t + 1

\* 2^40 does not fit the integers of the checker; n >= 2^40 is n \div 2^10 >= 2^30
\* and n / 2^40 is (n \div 2^10) / 2^30 up to the discarded remainder.
PyFormat(total_size) ==
    IF total_size \div 1024 >= 1073741824
    THEN Pretty(PyRound1(total_size \div 1024, 1073741824), TRUE, "T")
    ELSE IF total_size >= 1073741824
    THEN Pretty(PyRound1(total_size, 1073741824), TRUE, "G")
    ELSE IF total_size >= 1048576
    THEN Pretty(PyRound1(total_size, 1048576), TRUE, "M")
    ELSE IF total_size >= 1024
    THEN Pretty(PyRound1(total_size, 1024), TRUE, "K")
    ELSE Pretty(total_size, FALSE, "B")

\* Division of a / b rounded half away from zero (a, b >= 0).
RoundHalfUp(a, b) == (2 * a + b) \div (2 * b)

\* MySQL ROUND(SUM(size) / unit, 1) in tenths: the quotient of two exact
\* values has four decimals (div_precision_increment), ROUND rounds half
\* away from zero.
SqlRound1(n, unit) ==
    LET q4 == ((n \div unit) * 10000) + RoundHalfUp((n % unit) * 10000, unit)
    IN  RoundHalfUp(q4, 1000)

SqlFormat(sum) ==
    IF sum \div 1024 >= 1073741824
    THEN Pretty(SqlRound1(sum \div 1024, 1073741824), TRUE, "T")
    ELSE IF sum >= 1073741824
    THEN Pretty(SqlRound1(sum, 1073741824), TRUE, "G")
    ELSE IF sum >= 1048576
    THEN Pretty(SqlRound1(sum, 1048576), TRUE, "M")
    ELSE Pretty(SqlRound1(sum, 1024), TRUE, "K")

\* ------------------------------------------------------ upstream catalogs
\* The answer of the UUID API to GET /<uuid>/files: the first response, and
\* the response of the redirect target when the first is a 303 with a body.
StatusCodes == {"exception", "200", "303", "404", "500"}
Responses == [first : StatusCodes, target : BOOLEAN, second : StatusCodes]

Ok200 == [first |-> "200", target |-> FALSE, second |-> "200"]
NotFound404 == [first |-> "404", target |-> FALSE, second |-> "200"]
Raises == [first |-> "exception", target |-> FALSE, second |-> "200"]
Redirect200 == [first |-> "303", target |-> TRUE, second |-> "200"]
RedirectNoTarget == [first |-> "303", target |-> FALSE, second |-> "200"]

\* The ways the listing of a dataset fails in the runs of the model: the
\* request raises, or the 303 carries no target.
FailedResponses == {Raises, RedirectNoTarget}

\* The answers the loop of get_files_from_uuid_api tells apart: the fields of
\* a response that the loop does not read are fixed.
ResponseKinds ==
    {r \in Responses :
        /\ r.first # "303" => ~r.target
        /\ (r.first # "303" \/ ~r.target) => r.second = "200"}

\* get_published_datasets_from_search_api: the hits, or the empty frame when
\* the request raises.
get_published_datasets_from_search_api(ok, pub) ==
    IF ok THEN {SearchRow(d) : d \in pub} ELSE {}

\* The files the UUID API lists for dataset d.
Listing(d) == {FileInfo(f, d) : f \in {g \in FileIds : Parent(g) = d}}

\* As FetchOne, with a 303 of the redirect target followed once more.
FetchOne_FollowsAgain(d, resp, acc) ==
    LET first == [acc EXCEPT !.requests = Append(@, <<d, "url">>)]
    IN  IF resp.first = "exception"
        THEN [first EXCEPT !.errors = @ \cup {d}]
        ELSE IF resp.first = "303" /\ ~resp.target
        THEN first
        ELSE LET got == IF resp.first = "303"
                        THEN [first EXCEPT !.requests = Append(@, <<d, "redirect_url">>)]
                        ELSE first
                 status == IF resp.first = "303" THEN resp.second ELSE resp.first
             IN  IF status = "exception"
                 THEN [got EXCEPT !.errors = @ \cup {d}]
                 ELSE IF status = "200"
                 THEN [got EXCEPT !.all_files = @ \cup Listing(d)]
                 ELSE IF status = "404"
                 THEN got
                 ELSE IF status = "303" /\ resp.first = "303"
                 THEN [got EXCEPT !.requests = Append(@, <<d, "redirect_url">>),
                                  !.all_files = @ \cup Listing(d)]
                 ELSE [got EXCEPT !.errors = @ \cup {d}]

\* One iteration of the loop of get_files_from_uuid_api.  requests is the
\* sequence of the calls of requests.get: to the files url of the dataset,
\* and to the redirect_url of a 303 whose body is not empty.
FetchOne(d, resp, acc) ==
    LET first == [acc EXCEPT !.requests = Append(@, <<d, "url">>)]
    IN  IF resp.first = "exception"
        THEN [first EXCEPT !.errors = @ \cup {d}]
        ELSE IF resp.first = "303" /\ ~resp.target
        THEN first
        ELSE LET got == IF resp.first = "303"
                        THEN [first EXCEPT !.requests = Append(@, <<d, "redirect_url">>)]
                        ELSE first
                 status == IF resp.first = "303" THEN resp.second ELSE resp.first
             IN  IF status = "exception"
                 THEN [got EXCEPT !.errors = @ \cup {d}]
                 ELSE IF status = "200"
                 THEN [got EXCEPT !.all_files = @ \cup Listing(d)]
                 ELSE IF status = "404"
                 THEN got
                 ELSE [got EXCEPT !.errors = @ \cup {d}]

RECURSIVE FetchLoop(_, _, _)
FetchLoop(dataset_uuids, resp, acc) ==
    IF dataset_uuids = <<>> THEN acc
    ELSE FetchLoop(Tail(dataset_uuids), resp,
                   FetchOne(Head(dataset_uuids), resp[Head(dataset_uuids)], acc))

RECURSIVE SeqOf(_)
SeqOf(S) ==
    IF S = {} THEN <<>>
    ELSE LET m == CHOOSE x \in S : \A y \in S : x <= y
         IN  <<m>> \o SeqOf(S \ {m})

get_files_from_uuid_api(dataset_uuids, resp) ==
    FetchLoop(dataset_uuids, resp, [all_files |-> {}, errors |-> {}, requests |-> <<>>])

\* ---------------------------------------------------------------- registry
ManifestRow(d, n, p) ==
    [uuid |-> Uuid(d), hubmap_id |-> HubmapId(d), number_of_files |-> n, pretty_size |-> p]

FileRow(f, key) == [file_uuid |-> FileUuid(f), hubmap_id |-> key, size |-> FileSize(f)]

\* The rows of files whose hubmap_id is key.
ChildFiles(fs, key) == {r \in fs : r.hubmap_id = key}

\* get_datasets_from_drs and get_files_from_drs: the rows read, or the empty
\* frame when the query raises.
get_datasets_from_drs(m, ok) ==
    IF ok THEN {[uuid |-> r.uuid, hubmap_id |-> r.hubmap_id] : r \in m} ELSE {}

get_files_from_drs(fs, ok) ==
    IF ok THEN {[hubmap_id |-> r.hubmap_id, file_id |-> r.file_uuid] : r \in fs} ELSE {}

\* ---------------------------------------------------------------- exports
\* An export file of a run: not written, or written with rows.
NoCsv == [written |-> FALSE, rows |-> {}]
Csv(rows) == [written |-> TRUE, rows |-> rows]

\* The row generate_manifest_csv builds for a missing dataset.
ManifestCsvRow(dataset, all_files) ==
    LET dataset_files == {r \in all_files : r.dataset_uuid = dataset.uuid}
    IN  [uuid |-> dataset.uuid, hubmap_id |-> dataset.hubmap_id,
         number_of_files |-> Cardinality(dataset_files),
         pretty_size |-> PyFormat(SumSizes(dataset_files))]

\* Each generate_*_csv returns without writing when its frame is empty.
generate_manifest_csv(missing_datasets, all_files) ==
    IF missing_datasets = {} THEN NoCsv
    ELSE Csv({ManifestCsvRow(dataset, all_files) : dataset \in missing_datasets})

FilesCsvRow(file_info) ==
    [hubmap_id |-> file_info.dataset_uuid, file_uuid |-> file_info.uuid,
     size |-> file_info.size]

generate_files_csv(missing_files) ==
    IF missing_files = {} THEN NoCsv
    ELSE Csv({FilesCsvRow(file_info) : file_info \in missing_files})

generate_datasets_to_delete_csv(datasets_to_delete) ==
    IF datasets_to_delete = {} THEN NoCsv ELSE Csv(datasets_to_delete)

generate_files_to_delete_csv(files_to_delete) ==
    IF files_to_delete = {} THEN NoCsv ELSE Csv(files_to_delete)

NothingWritten ==
    [manifest |-> NoCsv, files |-> NoCsv, datasets_to_delete |-> NoCsv,
     files_to_delete |-> NoCsv]

\* Step 6 of run_sync: manifest.csv, files.csv, datasets_to_delete.csv and
\* files_to_delete.csv.
Exports(cmp, all_files) ==
    [manifest |-> generate_manifest_csv(cmp.datasets_to_add, all_files),
     files |-> generate_files_csv(cmp.files_to_add),
     datasets_to_delete |-> generate_datasets_to_delete_csv(cmp.datasets_to_delete),
     files_to_delete |-> generate_files_to_delete_csv(cmp.files_to_delete)]

\* Step 7 of run_sync: "if execute:" calls execute_sync_operations, the
\* other branch prints the SQL instructions and the run is over.
\* As ExecuteOrDryRun, with execute_sync_operations called in both modes.
ExecuteOrDryRun_Always(e) == "step1"

ExecuteOrDryRun(e) == IF e THEN "step1" ELSE "done"

\* ------------------------------------------------------------- comparison
NoComparison ==
    [raised |-> FALSE, datasets_to_add |-> {}, files_to_add |-> {},
     datasets_to_delete |-> {}, files_to_delete |-> {}]

\* compare_and_identify_missing.  A frame built from no rows has no columns:
\* the sets of identifiers are guarded by "if 'uuid' in df.columns", the
\* selections df[df['uuid'].isin(...)] are not and raise KeyError.
compare_and_identify_missing(search_datasets, uuid_files, drs_datasets, drs_files) ==
    LET search_uuids == {r.uuid : r \in search_datasets}
        drs_uuids == {r.uuid : r \in drs_datasets}
        missing_dataset_uuids == search_uuids \ drs_uuids
        extra_dataset_uuids == drs_uuids \ search_uuids
        uuid_file_ids == {r.uuid : r \in uuid_files}
        drs_file_ids == {r.file_id : r \in drs_files}
        missing_file_ids == uuid_file_ids \ drs_file_ids
        extra_file_ids == drs_file_ids \ uuid_file_ids
    IN  IF search_datasets = {} \/ drs_datasets = {} \/ uuid_files = {} \/ drs_files = {}
        THEN [NoComparison EXCEPT !.raised = TRUE]
        ELSE [raised |-> FALSE,
              datasets_to_add |-> {r \in search_datasets : r.uuid \in missing_dataset_uuids},
              files_to_add |-> {r \in uuid_files : r.uuid \in missing_file_ids},
              datasets_to_delete |-> {r \in drs_datasets : r.uuid \in extra_dataset_uuids},
              files_to_delete |-> {r \in drs_files : r.file_id \in extra_file_ids}]

\* The bundle columns of a row of a left join that joined no bundle (NULL),
\* and the loop variable of step 4 outside the loop.
NoRow == [uuid |-> <<"uuid", 0>>, hubmap_id |-> <<"HBM", 0>>]

\* ------------------------------------------------------------ access URLs
\* A string is the sequence of its characters.  The column files.name holds
\* the stored path of a file.
PathChars == {"/", "a", "b"}
Paths == UNION {[1..n -> PathChars] : n \in 0..MaxPathLen}

\* str.split("/"): the segments between the slashes; a string with no slash
\* (the empty string too) is one segment.
RECURSIVE Split(_)
Split(str) ==
    IF \A i \in 1..Len(str) : str[i] # "/"
    THEN <<str>>
    ELSE LET i == CHOOSE k \in 1..Len(str) :
                      str[k] = "/" /\ \A j \in 1..(k - 1) : str[j] # "/"
         IN  <<SubSeq(str, 1, i - 1)>> \o Split(SubSeq(str, i + 1, Len(str)))

\* "/".join(segments)
RECURSIVE Join(_)
Join(segments) ==
    IF segments = <<>> THEN <<>>
    ELSE IF Len(segments) = 1 THEN segments[1]
    ELSE segments[1] \o <<"/">> \o Join(Tail(segments))

\* As AccessPath, with only the first segment dropped.
AccessPath_FromSecondSegment(path) ==
    <<"/">> \o Join(SubSeq(Split(path), 2, Len(Split(path))))

\* access_path = "/" + "/".join(path.split("/")[2:])
AccessPath(path) == <<"/">> \o Join(SubSeq(Split(path), 3, Len(Split(path))))

\* config_data["ACCESS_DOMAIN"]
ACCESS_DOMAIN == "files.example.org"

\* f"https://{ACCESS_DOMAIN}{access_path}"
AccessUrl(path) == <<"https://", ACCESS_DOMAIN>> \o AccessPath(path)

\* The url of an answer that carries none.
NoUrl == <<>>

\* ---------------------------------------------------------------- resolver
\* pretty_to_bytes: int(float(pretty_str[:-1]) * units[unit]).
UnitBytes(unit) ==
    CASE unit = "B" -> 1
      [] unit = "K" -> 1024
      [] unit = "M" -> 1048576
      [] unit = "G" -> 1073741824
      [] OTHER -> 1

\* As pretty_to_bytes, with the decimal of the number dropped.
pretty_to_bytes_WholeUnits(pretty_str) ==
    IF pretty_str.frac
    THEN (pretty_str.num \div 10) * UnitBytes(pretty_str.unit)
    ELSE pretty_str.num * UnitBytes(pretty_str.unit)

\* int() truncates num * unit.  For a number with one decimal, in tenths:
\* (tenths * unit) \div 10, computed digit by digit so that no intermediate
\* value leaves the integers of the checker.
pretty_to_bytes(pretty_str) ==
    IF pretty_str.frac
    THEN LET unit == UnitBytes(pretty_str.unit)
             digit == pretty_str.num % 10
         IN  ((pretty_str.num \div 10) * unit)
               + (digit * ((unit \div 2) \div 5)) + ((digit * ((unit \div 2) % 5)) \div 5)
    ELSE pretty_str.num * UnitBytes(pretty_str.unit)

\* As BundleLookup, with at most one row returned (LIMIT 1).
BundleLookup_FirstRow(m, id) ==
    IF {r \in m : r.hubmap_id = id} = {} THEN {}
    ELSE {CHOOSE r \in m : r.hubmap_id = id}

\* SELECT * FROM manifest WHERE hubmap_id = id.
BundleLookup(m, id) == {r \in m : r.hubmap_id = id}

\* As ObjectLookup, with an inner join: a matching file that joins no bundle
\* gives no row.
ObjectLookup_InnerJoin(m, fs, id) ==
    UNION {{<<f, [uuid |-> b.uuid, hubmap_id |-> b.hubmap_id]>> :
              b \in BundleLookup(m, f.hubmap_id)} :
           f \in {r \in fs : r.file_uuid = id}}

\* SELECT files.*, manifest.creation_date FROM files LEFT JOIN manifest ON
\* manifest.hubmap_id = files.hubmap_id WHERE file_uuid = id: one row for
\* each pair of a matching file and a bundle it joins, and one row for a
\* matching file that joins no bundle.
ObjectLookup(m, fs, id) ==
    UNION {IF BundleLookup(m, f.hubmap_id) = {}
           THEN {<<f, NoRow>>}
           ELSE {<<f, [uuid |-> b.uuid, hubmap_id |-> b.hubmap_id]>> :
                   b \in BundleLookup(m, f.hubmap_id)} :
           f \in {r \in fs : r.file_uuid = id}}

Response(kind, status, id, size, contents, lookups) ==
    [kind |-> kind, status |-> status, id |-> id, size |-> size,
     contents |-> contents, lookups |-> lookups, access_url |-> NoUrl]

\* As get_drs_object, with the object lookup run first and the bundle lookup
\* only when no files row matches.
get_drs_object_FilesFirst(m, fs, drs_uuid) ==
    LET object == BundleLookup(m, drs_uuid)
        object2 == ObjectLookup(m, fs, drs_uuid)
    IN  IF Cardinality(object2) > 1
        THEN Response("More than one object found.", 404, drs_uuid, 0, {}, <<"object lookup">>)
        ELSE IF Cardinality(object2) = 1
        THEN LET row == CHOOSE x \in object2 : TRUE
             IN  Response("object", 200, row[1].file_uuid, row[1].size, {},
                          <<"object lookup">>)
        ELSE IF Cardinality(object) > 1
        THEN Response("More than one object found.", 404, drs_uuid, 0, {},
                      <<"object lookup", "bundle lookup">>)
        ELSE IF Cardinality(object) = 0
        THEN Response("No object found.", 404, drs_uuid, 0, {},
                      <<"object lookup", "bundle lookup">>)
        ELSE LET row == CHOOSE x \in object : TRUE
             IN  Response("bundle", 200, row.hubmap_id, pretty_to_bytes(row.pretty_size),
                          {content.file_uuid : content \in ChildFiles(fs, row.hubmap_id)},
                          <<"object lookup", "bundle lookup", "contents">>)

\* get_drs_object: the bundle lookup, then the object lookup when the bundle
\* lookup finds no row.  lookups is the sequence of queries executed.
get_drs_object(m, fs, drs_uuid) ==
    LET object == BundleLookup(m, drs_uuid)
        object2 == ObjectLookup(m, fs, drs_uuid)
    IN  IF Cardinality(object) > 1
        THEN Response("More than one object found.", 404, drs_uuid, 0, {}, <<"bundle lookup">>)
        ELSE IF Cardinality(object) = 0
        THEN IF Cardinality(object2) > 1
             THEN Response("More than one object found.", 404, drs_uuid, 0, {},
                           <<"bundle lookup", "object lookup">>)
             ELSE IF Cardinality(object2) = 0
             THEN Response("No object found.", 404, drs_uuid, 0, {},
                           <<"bundle lookup", "object lookup">>)
             ELSE LET row == CHOOSE x \in object2 : TRUE
                  IN  [Response("object", 200, row[1].file_uuid, row[1].size, {},
                                <<"bundle lookup", "object lookup">>)
                          EXCEPT !.access_url = AccessUrl(row[1].name)]
        ELSE LET row == CHOOSE x \in object : TRUE
             IN  Response("bundle", 200, row.hubmap_id, pretty_to_bytes(row.pretty_size),
                          {content.file_uuid : content \in ChildFiles(fs, row.hubmap_id)},
                          <<"bundle lookup", "contents">>)

\* The identifier of an answer that carries none.
NoId == <<"none", 0>>

\* get_drs_object_by_access_method: the object lookup alone; access_method is
\* not read.
get_drs_object_by_access_method(m, fs, drs_uuid, access_method) ==
    LET object == ObjectLookup(m, fs, drs_uuid)
    IN  IF Cardinality(object) > 1
        THEN Response("More than one object found.", 404, NoId, 0, {}, <<"object lookup">>)
        ELSE IF Cardinality(object) = 0
        THEN Response("No object found.", 404, NoId, 0, {}, <<"object lookup">>)
        ELSE LET row == CHOOSE x \in object : TRUE
             IN  [Response("url", 200, NoId, 0, {}, <<"object lookup">>)
                     EXCEPT !.access_url = AccessUrl(row[1].name)]

\* get_included_datasets: SELECT DISTINCT hubmap_id FROM manifest.
get_included_datasets(m) == {r.hubmap_id : r \in m}

\* ------------------------------------------------------------------ state
VARIABLES
    published,      \* the datasets the Search API returns
    searchOk,       \* FALSE: the Search API request raises
    response,       \* the UUID API's answer for each dataset
    manifest,       \* committed rows of table manifest
    files,          \* committed rows of table files
    txManifest,     \* manifest as seen inside the applier's connection
    txFiles,        \* files as seen inside the applier's connection
    pc,             \* position of the synchronisation script
    execute,        \* the --execute flag of the current run
    uuid_files,     \* the files fetched from the UUID API in the current run
    errors,         \* the datasets with an entry in uuid_api_errors.log
    search_datasets, \* the frame of the Search API hits of the current run
    drs_datasets,   \* the frame read from manifest in the current run
    drs_files,      \* the frame read from files in the current run
    comparison,     \* the result of compare_and_identify_missing
    pending,        \* rows of datasets_to_delete the loop of step 4 has not reached
    cur,            \* the row of datasets_to_delete the loop of step 4 is at
    preManifest,    \* manifest when the current run started
    preFiles,       \* files when the current run started
    prevApplied,    \* the previous run was an apply-mode run that completed
    request,        \* the identifier of the last resolver request
    answer,         \* the resolver's answer to it
    requests,       \* the calls of requests.get of the file fetch of the current run
    accessRequest,  \* the last request, when to the access endpoint: identifier and method
    accessAnswer,   \* the answer to it
    matches,        \* the answer to the last request, when to /datasets
    landed,         \* whether another session changed the registry between the
                    \* reads and the apply of a run: "none", or in "this run",
                    \* the "previous run" or an "earlier" one
    written         \* the four export files this run has written

\* What execute_sync_operations does not assign.
runVars == <<execute, uuid_files, errors, search_datasets, drs_datasets, drs_files,
             comparison, preManifest, preFiles, prevApplied, requests, landed,
             written>>
syncVars == <<pc, pending, cur, runVars>>
envVars == <<published, searchOk, response>>
dbVars == <<manifest, files, txManifest, txFiles>>
resolverVars == <<request, answer, accessRequest, accessAnswer, matches>>
vars == <<published, searchOk, response, manifest, files, txManifest, txFiles,
          pc, execute, uuid_files, errors, search_datasets, drs_datasets, drs_files,
          comparison, pending, cur, preManifest, preFiles, prevApplied, request, answer,
          requests, accessRequest, accessAnswer, matches, landed, written>>

NoAnswer == Response("none", 0, <<"none", 0>>, 0, {}, <<>>)
NoAccessRequest == [id |-> NoId, access_method |-> "none"]
NoMatches == {NoId}

\* ------------------------------------------------------------------- Init
\* The files table of a registry: each file is absent or stored under a
\* registered bundle, which is the dataset that lists the file upstream or the
\* one before it (the file has moved upstream since it was stored).  The
\* rows are stored under the bundles' hubmap_id (as the resolver joins) or
\* under their uuid (as step 2 of the applier stores them).
Holders(f) == {Parent(f), ((Parent(f) + NumDatasets - 2) % NumDatasets) + 1}

Absent == <<"absent", 0>>

KeyOf(kind, d) == IF d = 0 THEN Absent ELSE IF kind = "uuid" THEN Uuid(d) ELSE HubmapId(d)

InitFiles(present) ==
    {{FileRow(f, KeyOf(kind, holder[f])) : f \in {g \in FileIds : holder[g] # 0}} :
        kind \in {"uuid", "hubmap_id"},
        holder \in {h \in [FileIds -> present \cup {0}] :
                      \A f \in FileIds : h[f] \in Holders(f) \cup {0}}}

InitManifest(present, fs) ==
    {ManifestRow(d, Cardinality(ChildFiles(fs, HubmapId(d))),
                 PyFormat(SumSizes(ChildFiles(fs, HubmapId(d))))) : d \in present}

Init ==
    /\ searchOk \in BOOLEAN
    /\ published \in SUBSET Datasets
    /\ searchOk = FALSE => published = {}
    /\ \E failing \in SUBSET published, failure \in FailedResponses :
         response = [d \in Datasets |-> IF d \in failing THEN failure ELSE Ok200]
    /\ \E present \in SUBSET Datasets :
         /\ files \in InitFiles(present)
         /\ manifest = InitManifest(present, files)
    /\ txManifest = manifest
    /\ txFiles = files
    /\ pc = "idle"
    /\ execute = FALSE
    /\ uuid_files = {}
    /\ errors = {}
    /\ search_datasets = {}
    /\ drs_datasets = {}
    /\ drs_files = {}
    /\ comparison = NoComparison
    /\ pending = {}
    /\ cur = NoRow
    /\ preManifest = manifest
    /\ preFiles = files
    /\ prevApplied = FALSE
    /\ request = <<"none", 0>>
    /\ answer = NoAnswer
    /\ requests = <<>>
    /\ accessRequest = NoAccessRequest
    /\ accessAnswer = NoAnswer
    /\ matches = NoMatches
    /\ landed = "none"
    /\ written = NothingWritten

\* --------------------------------------------------------------- run_sync
\* The two reads of the registry succeed, or one of the queries raises.
ReadOutcomes == {"ok", "manifest raises", "files raises"}

\* As RunSync, without the return on an empty result of the Search API.
RunSync_NoAbort(e, reads) ==
    /\ pc \in {"idle", "done", "failed", "aborted", "crashed"}
    /\ execute' = e
    /\ prevApplied' = (pc = "done" /\ execute)
    /\ landed' = CASE landed = "none" -> "none"
                    [] landed = "this run" -> "previous run"
                    [] OTHER -> "earlier"
    /\ preManifest' = manifest
    /\ preFiles' = files
    /\ pending' = {}
    /\ cur' = NoRow
    /\ search_datasets' = get_published_datasets_from_search_api(searchOk, published)
    /\ LET fetched == get_files_from_uuid_api(SeqOf(published), response)
        IN  /\ uuid_files' = fetched.all_files
            /\ errors' = fetched.errors
            /\ requests' = fetched.requests
            /\ drs_datasets' = get_datasets_from_drs(manifest, reads # "manifest raises")
            /\ drs_files' = IF drs_datasets' # {}
                            THEN get_files_from_drs(files, reads # "files raises")
                            ELSE {}
            /\ comparison' = compare_and_identify_missing(
                                 search_datasets', uuid_files', drs_datasets', drs_files')
            /\ written' = IF comparison'.raised THEN NothingWritten
                          ELSE Exports(comparison', uuid_files')
            /\ pc' = IF comparison'.raised THEN "crashed"
                     ELSE ExecuteOrDryRun(e)
    /\ UNCHANGED <<envVars, dbVars, resolverVars>>

\* run_sync up to the call of execute_sync_operations: the fetches, the
\* reads of the registry, the comparison and the exports.
RunSync(e, reads) ==
    /\ pc \in {"idle", "done", "failed", "aborted", "crashed"}
    /\ execute' = e
    /\ prevApplied' = (pc = "done" /\ execute)
    /\ landed' = CASE landed = "none" -> "none"
                    [] landed = "this run" -> "previous run"
                    [] OTHER -> "earlier"
    /\ preManifest' = manifest
    /\ preFiles' = files
    /\ pending' = {}
    /\ cur' = NoRow
    /\ search_datasets' = get_published_datasets_from_search_api(searchOk, published)
    /\ IF search_datasets' = {}
       THEN /\ pc' = "aborted"
            /\ uuid_files' = {}
            /\ errors' = {}
            /\ requests' = <<>>
            /\ drs_datasets' = {}
            /\ drs_files' = {}
            /\ comparison' = NoComparison
            /\ written' = NothingWritten
       ELSE LET fetched == get_files_from_uuid_api(SeqOf(published), response)
            IN  /\ uuid_files' = fetched.all_files
                /\ errors' = fetched.errors
                /\ requests' = fetched.requests
                /\ drs_datasets' = get_datasets_from_drs(manifest, reads # "manifest raises")
                /\ drs_files' = IF drs_datasets' # {}
                                THEN get_files_from_drs(files, reads # "files raises")
                                ELSE {}
                /\ comparison' = compare_and_identify_missing(
                                     search_datasets', uuid_files', drs_datasets', drs_files')
                /\ written' = IF comparison'.raised THEN NothingWritten
                              ELSE Exports(comparison', uuid_files')
                /\ pc' = IF comparison'.raised THEN "crashed"
                         ELSE ExecuteOrDryRun(e)
    /\ UNCHANGED <<envVars, dbVars, resolverVars>>

\* ------------------------------------------------ execute_sync_operations
\* Step 1: one manifest row per dataset of datasets_to_add; number_of_files
\* and pretty_size count the fetched files whose dataset_uuid is the uuid.
NewManifestRow(dataset, all_files) ==
    LET dataset_files == {r \in all_files : r.dataset_uuid = dataset.uuid}
    IN  [uuid |-> dataset.uuid, hubmap_id |-> dataset.hubmap_id,
         number_of_files |-> Cardinality(dataset_files),
         pretty_size |-> PyFormat(SumSizes(dataset_files))]

InsertDatasetsRows(m, cmp, all_files) ==
    m \cup {NewManifestRow(dataset, all_files) : dataset \in cmp.datasets_to_add}

\* Step 2: one files row per entry of files_to_add; the column hubmap_id
\* receives file_info['dataset_uuid'].
NewFileRow(file_info) ==
    [file_uuid |-> file_info.uuid, hubmap_id |-> file_info.dataset_uuid,
     size |-> file_info.size]

InsertFilesRows(fs, cmp) == fs \cup {NewFileRow(file_info) : file_info \in cmp.files_to_add}

\* Step 3: DELETE FROM files WHERE file_uuid = file_id, for each row of
\* files_to_delete.
DeleteFilesRows(fs, cmp) ==
    {r \in fs : r.file_uuid \notin {x.file_id : x \in cmp.files_to_delete}}

\* Step 4, for one row of datasets_to_delete:
\* DELETE FROM files WHERE hubmap_id = dataset['hubmap_id'], then
\* DELETE FROM manifest WHERE uuid = dataset['uuid'].
\* As DeleteFilesOfDataset, with the files selected by the dataset's uuid.
DeleteFilesOfDataset_ByUuid(fs, dataset) == {r \in fs : r.hubmap_id # dataset.uuid}

DeleteFilesOfDataset(fs, dataset) == {r \in fs : r.hubmap_id # dataset.hubmap_id}
DeleteManifestOfDataset(m, dataset) == {r \in m : r.uuid # dataset.uuid}

\* Step 5: the two UPDATE manifest m JOIN (SELECT ... FROM files GROUP BY
\* hubmap_id) f ON m.hubmap_id = f.hubmap_id.  The join is an inner join: a
\* manifest row without a group in files is not updated.
UpdateManifestRows(m, fs) ==
    {IF ChildFiles(fs, r.hubmap_id) # {}
     THEN [r EXCEPT !.pretty_size = SqlFormat(SumSizes(ChildFiles(fs, r.hubmap_id))),
                    !.number_of_files = Cardinality(ChildFiles(fs, r.hubmap_id))]
     ELSE r : r \in m}

ApplyPcs == {"step1", "step2", "step3", "step4", "step4b", "step5"}

\* conn.commit(): the connection's contents become the committed contents.
Commit(m, fs, next) ==
    /\ txManifest' = m
    /\ txFiles' = fs
    /\ manifest' = m
    /\ files' = fs
    /\ pc' = next

InsertDatasets ==
    /\ pc = "step1"
    /\ Commit(InsertDatasetsRows(txManifest, comparison, uuid_files), txFiles, "step2")
    /\ UNCHANGED <<envVars, resolverVars, runVars, pending, cur>>

InsertFiles ==
    /\ pc = "step2"
    /\ Commit(txManifest, InsertFilesRows(txFiles, comparison), "step3")
    /\ UNCHANGED <<envVars, resolverVars, runVars, pending, cur>>

DeleteFiles ==
    /\ pc = "step3"
    /\ Commit(txManifest, DeleteFilesRows(txFiles, comparison), "step4")
    /\ pending' = comparison.datasets_to_delete
    /\ UNCHANGED <<envVars, resolverVars, runVars, cur>>

\* The loop of step 4 runs inside the transaction; its commit follows the loop.
DeleteAssociatedFiles ==
    /\ pc = "step4"
    /\ \E dataset \in pending :
         /\ cur' = dataset
         /\ txFiles' = DeleteFilesOfDataset(txFiles, dataset)
    /\ pc' = "step4b"
    /\ UNCHANGED <<envVars, resolverVars, runVars, manifest, files, txManifest, pending>>

DeleteDataset ==
    /\ pc = "step4b"
    /\ txManifest' = DeleteManifestOfDataset(txManifest, cur)
    /\ pending' = pending \ {cur}
    /\ cur' = NoRow
    /\ pc' = "step4"
    /\ UNCHANGED <<envVars, resolverVars, runVars, manifest, files, txFiles>>

CommitDeletedDatasets ==
    /\ pc = "step4"
    /\ pending = {}
    /\ Commit(txManifest, txFiles, "step5")
    /\ UNCHANGED <<envVars, resolverVars, runVars, pending, cur>>

UpdateManifest ==
    /\ pc = "step5"
    /\ Commit(UpdateManifestRows(txManifest, txFiles), txFiles, "done")
    /\ UNCHANGED <<envVars, resolverVars, runVars, pending, cur>>

\* A statement of the step the applier is at raises: conn.rollback() undoes
\* what the connection has not committed, and the exception is re-raised.
ApplyFails ==
    /\ pc \in ApplyPcs
    /\ txManifest' = manifest
    /\ txFiles' = files
    /\ pc' = "failed"
    /\ UNCHANGED <<envVars, resolverVars, runVars, manifest, files, pending, cur>>

Next ==
    \/ \E e \in BOOLEAN, reads \in ReadOutcomes : RunSync(e, reads)
    \/ InsertDatasets
    \/ InsertFiles
    \/ DeleteFiles
    \/ DeleteAssociatedFiles
    \/ DeleteDataset
    \/ CommitDeletedDatasets
    \/ UpdateManifest
    \/ ApplyFails

Spec == Init /\ [][Next]_vars

\* ------------------------------------------------------- the file fetch
\* get_files_from_uuid_api on its own: a list of published datasets and, for
\* each of them, any of the answers the loop tells apart.
InitFetch ==
    /\ searchOk = TRUE
    /\ published \in SUBSET Datasets
    /\ response \in [Datasets -> ResponseKinds]
    /\ \A d \in Datasets \ published : response[d] = Ok200
    /\ manifest = {}
    /\ files = {}
    /\ txManifest = manifest
    /\ txFiles = files
    /\ pc = "idle"
    /\ execute = FALSE
    /\ uuid_files = {}
    /\ errors = {}
    /\ search_datasets = {}
    /\ drs_datasets = {}
    /\ drs_files = {}
    /\ comparison = NoComparison
    /\ pending = {}
    /\ cur = NoRow
    /\ preManifest = manifest
    /\ preFiles = files
    /\ prevApplied = FALSE
    /\ request = NoId
    /\ answer = NoAnswer
    /\ requests = <<>>
    /\ accessRequest = NoAccessRequest
    /\ accessAnswer = NoAnswer
    /\ matches = NoMatches
    /\ landed = "none"
    /\ written = NothingWritten

\* files = get_files_from_uuid_api(dataset_uuids)
GetFilesFromUuidApi ==
    /\ pc = "idle"
    /\ pc' = "fetched"
    /\ LET fetched == get_files_from_uuid_api(SeqOf(published), response)
       IN  /\ uuid_files' = fetched.all_files
           /\ errors' = fetched.errors
           /\ requests' = fetched.requests
    /\ UNCHANGED <<envVars, dbVars, resolverVars, pending, cur, execute, search_datasets,
                   drs_datasets, drs_files, comparison, preManifest, preFiles, prevApplied,
                   landed, written>>

NextFetch == GetFilesFromUuidApi

SpecFetch == InitFetch /\ [][NextFetch]_vars

\* ------------------------------------------------------- resolver requests
\* A registry for the resolver's requests: identifiers are drawn from one
\* small set, so that rows may share an identifier.  The files rows are
\* stored under the first or the last identifier; the manifest rows take any.
Ids == {<<"id", i>> : i \in 1..NumIds}

\* The stored path of the files row of slot j: two leading segments and a
\* file name.
StoragePath(j) == [i \in 1..(4 + j) |-> IF i \in {2, 4} THEN "/" ELSE IF i < 4 THEN "a" ELSE "b"]

ResolverFiles ==
    {{[file_uuid |-> fid[j], hubmap_id |-> key[j], size |-> FileSize(j),
       name |-> StoragePath(j)] :
        j \in {i \in 1..NumIds : fid[i] # Absent}} :
        fid \in [1..NumIds -> Ids \cup {Absent}],
        key \in [1..NumIds -> {<<"id", 1>>, <<"id", NumIds>>}]}

ResolverManifest(fs) ==
    {{[uuid |-> Uuid(j), hubmap_id |-> hid[j],
       number_of_files |-> Cardinality(ChildFiles(fs, hid[j])),
       pretty_size |-> PyFormat(SumSizes(ChildFiles(fs, hid[j])))] :
        j \in {i \in 1..NumIds : hid[i] # Absent}} :
        hid \in [1..NumIds -> Ids \cup {Absent}]}

InitResolver ==
    /\ searchOk = TRUE
    /\ published = {}
    /\ response = [d \in Datasets |-> Ok200]
    /\ files \in ResolverFiles
    /\ manifest \in ResolverManifest(files)
    /\ txManifest = manifest
    /\ txFiles = files
    /\ pc = "idle"
    /\ execute = FALSE
    /\ uuid_files = {}
    /\ errors = {}
    /\ search_datasets = {}
    /\ drs_datasets = {}
    /\ drs_files = {}
    /\ comparison = NoComparison
    /\ pending = {}
    /\ cur = NoRow
    /\ preManifest = manifest
    /\ preFiles = files
    /\ prevApplied = FALSE
    /\ request = <<"none", 0>>
    /\ answer = NoAnswer
    /\ requests = <<>>
    /\ accessRequest = NoAccessRequest
    /\ accessAnswer = NoAnswer
    /\ matches = NoMatches
    /\ landed = "none"
    /\ written = NothingWritten

\* As GetDrsObject, with the manifest rows the lookup matched deleted.
GetDrsObject_Consuming(drs_uuid) ==
    /\ request' = drs_uuid
    /\ answer' = get_drs_object(manifest, files, drs_uuid)
    /\ manifest' = manifest \ BundleLookup(manifest, drs_uuid)
    /\ accessRequest' = NoAccessRequest
    /\ accessAnswer' = NoAnswer
    /\ matches' = NoMatches
    /\ UNCHANGED <<envVars, files, txManifest, txFiles, syncVars>>

\* The three endpoints of app.py.  request and answer, accessRequest and
\* accessAnswer, and matches record the last exchange: those of the endpoints
\* that did not serve it hold no request and no answer.
\* GET /ga4gh/drs/v1/objects/<drs_uuid>
GetDrsObject(drs_uuid) ==
    /\ request' = drs_uuid
    /\ answer' = get_drs_object(manifest, files, drs_uuid)
    /\ accessRequest' = NoAccessRequest
    /\ accessAnswer' = NoAnswer
    /\ matches' = NoMatches
    /\ UNCHANGED <<envVars, dbVars, syncVars>>

\* The access-method tokens of the requests.
AccessMethods == {"https", "s3"}

\* GET /ga4gh/drs/v1/objects/<drs_uuid>/access/<access_method>
GetDrsObjectByAccessMethod(drs_uuid, access_method) ==
    /\ accessRequest' = [id |-> drs_uuid, access_method |-> access_method]
    /\ accessAnswer' = get_drs_object_by_access_method(manifest, files, drs_uuid, access_method)
    /\ request' = NoId
    /\ answer' = NoAnswer
    /\ matches' = NoMatches
    /\ UNCHANGED <<envVars, dbVars, syncVars>>

\* GET /datasets
GetIncludedDatasets ==
    /\ matches' = get_included_datasets(manifest)
    /\ request' = NoId
    /\ answer' = NoAnswer
    /\ accessRequest' = NoAccessRequest
    /\ accessAnswer' = NoAnswer
    /\ UNCHANGED <<envVars, dbVars, syncVars>>

NextResolver ==
    \/ \E drs_uuid \in Ids : GetDrsObject(drs_uuid)
    \/ \E drs_uuid \in Ids, access_method \in AccessMethods :
         GetDrsObjectByAccessMethod(drs_uuid, access_method)
    \/ GetIncludedDatasets

SpecResolver == InitResolver /\ [][NextResolver]_vars

\* ------------------------------------------------- concurrent sessions
\* Between the reads of run_sync and the first statement of
\* execute_sync_operations another database session commits a change: it
\* deletes a files row or a manifest row, or inserts the files row of a file
\* under a bundle of the registry.  The model lets one such change land.
ConcurrentChange ==
    /\ pc = "step1"
    /\ landed = "none"
    /\ \/ \E row \in files : files' = files \ {row} /\ manifest' = manifest
       \/ \E row \in manifest : manifest' = manifest \ {row} /\ files' = files
       \/ \E f \in FileIds, b \in manifest :
            /\ \A row \in files : row.file_uuid # FileUuid(f)
            /\ \E d \in Holders(f) : b.uuid = Uuid(d)
            /\ files' = files \cup {FileRow(f, b.hubmap_id)}
            /\ manifest' = manifest
    /\ txManifest' = manifest'
    /\ txFiles' = files'
    /\ landed' = "this run"
    /\ UNCHANGED <<envVars, resolverVars, pc, pending, cur, execute, uuid_files, errors,
                   search_datasets, drs_datasets, drs_files, comparison, preManifest,
                   preFiles, prevApplied, requests, written>>

NextConcurrent ==
    \/ Next
    \/ ConcurrentChange

SpecConcurrent == Init /\ [][NextConcurrent]_vars

\* ------------------------------------------------------------ file sizes
\* Byte counts around the sixty-fourths of each unit, up to
\* MaxSixtyFourths / 64 units.
SizeInputs ==
    {n \in {(m * (unit \div 64)) + e : m \in 0..MaxSixtyFourths,
                                     unit \in {64, 1024, 1048576, 1073741824},
                                     e \in {-1, 0, 1}} : n >= 0}

\* An apply-mode run at the call of execute_sync_operations: the registry
\* holds dataset 2 and its file, upstream publishes datasets 1 and 2, and the
\* UUID API lists for dataset 1 one file of n bytes.
InitSize ==
    /\ searchOk = TRUE
    /\ published = {1, 2}
    /\ response = [d \in Datasets |-> Ok200]
    /\ files = {FileRow(2, HubmapId(2))}
    /\ manifest = {ManifestRow(2, 1, PyFormat(FileSize(2)))}
    /\ txManifest = manifest
    /\ txFiles = files
    /\ pc = "step1"
    /\ execute = TRUE
    /\ \E n \in SizeInputs :
         uuid_files = {[uuid |-> FileUuid(1), dataset_uuid |-> Uuid(1), size |-> n],
                       FileInfo(2, 2)}
    /\ errors = {}
    /\ search_datasets = {SearchRow(1), SearchRow(2)}
    /\ drs_datasets = get_datasets_from_drs(manifest, TRUE)
    /\ drs_files = get_files_from_drs(files, TRUE)
    /\ comparison = compare_and_identify_missing(search_datasets, uuid_files,
                                                  drs_datasets, drs_files)
    /\ pending = {}
    /\ cur = NoRow
    /\ preManifest = manifest
    /\ preFiles = files
    /\ prevApplied = FALSE
    /\ request = NoId
    /\ answer = NoAnswer
    /\ requests = <<<<1, "url">>, <<2, "url">>>>
    /\ accessRequest = NoAccessRequest
    /\ accessAnswer = NoAnswer
    /\ matches = NoMatches
    /\ landed = "none"
    /\ written = Exports(comparison, uuid_files)

\* Step 1 of the applier, and the resolution of the inserted bundle.
NextSize ==
    \/ InsertDatasets
    \/ GetDrsObject(HubmapId(1))

SpecSize == InitSize /\ [][NextSize]_vars

\* ------------------------------------------------------ repeated listings
\* The entries the listings of the UUID API can hold when a file may be
\* listed under more than one dataset.
RepeatedListings(pub) == SUBSET {FileInfo(f, d) : f \in FileIds, d \in pub}

\* An apply-mode run at the call of execute_sync_operations, after every
\* listing was fetched and the comparison did not raise; the fetched files
\* are any entries of RepeatedListings.
InitRepeated ==
    /\ searchOk = TRUE
    /\ published \in SUBSET Datasets
    /\ response = [d \in Datasets |-> Ok200]
    /\ \E present \in SUBSET Datasets :
         /\ files \in InitFiles(present)
         /\ manifest = InitManifest(present, files)
    /\ txManifest = manifest
    /\ txFiles = files
    /\ pc = "step1"
    /\ execute = TRUE
    /\ uuid_files \in RepeatedListings(published)
    /\ errors = {}
    /\ search_datasets = get_published_datasets_from_search_api(searchOk, published)
    /\ drs_datasets = get_datasets_from_drs(manifest, TRUE)
    /\ drs_files = get_files_from_drs(files, TRUE)
    /\ comparison = compare_and_identify_missing(search_datasets, uuid_files,
                                                  drs_datasets, drs_files)
    /\ ~comparison.raised
    /\ pending = {}
    /\ cur = NoRow
    /\ preManifest = manifest
    /\ preFiles = files
    /\ prevApplied = FALSE
    /\ request = NoId
    /\ answer = NoAnswer
    /\ requests = [i \in 1..Cardinality(published) |-> <<SeqOf(published)[i], "url">>]
    /\ accessRequest = NoAccessRequest
    /\ accessAnswer = NoAnswer
    /\ matches = NoMatches
    /\ landed = "none"
    /\ written = Exports(comparison, uuid_files)

\* execute_sync_operations.
NextRepeated ==
    \/ InsertDatasets
    \/ InsertFiles
    \/ DeleteFiles
    \/ DeleteAssociatedFiles
    \/ DeleteDataset
    \/ CommitDeletedDatasets
    \/ UpdateManifest
    \/ ApplyFails

SpecRepeated == InitRepeated /\ [][NextRepeated]_vars

\* ------------------------------------------------- the service as a whole
\* The synchronisation script and the resolver on one registry: between any
\* two steps of a run a client resolves the hubmap_id of a dataset.
NextService ==
    \/ Next
    \/ \E d \in Datasets : GetDrsObject(HubmapId(d))

SpecService == Init /\ [][NextService]_vars

\* ------------------------------------------------------ stored paths
\* A registry of one files row whose name is any string of at most
\* MaxPathLen characters, with or without the row of its bundle.
AccessFile(path) ==
    [file_uuid |-> <<"id", 1>>, hubmap_id |-> <<"id", NumIds>>, size |-> FileSize(1),
     name |-> path]

AccessManifest(fs) ==
    {{}, {[uuid |-> Uuid(1), hubmap_id |-> <<"id", NumIds>>,
           number_of_files |-> Cardinality(ChildFiles(fs, <<"id", NumIds>>)),
           pretty_size |-> PyFormat(SumSizes(ChildFiles(fs, <<"id", NumIds>>)))]}}

InitAccess ==
    /\ searchOk = TRUE
    /\ published = {}
    /\ response = [d \in Datasets |-> Ok200]
    /\ \E path \in Paths : files = {AccessFile(path)}
    /\ manifest \in AccessManifest(files)
    /\ txManifest = manifest
    /\ txFiles = files
    /\ pc = "idle"
    /\ execute = FALSE
    /\ uuid_files = {}
    /\ errors = {}
    /\ search_datasets = {}
    /\ drs_datasets = {}
    /\ drs_files = {}
    /\ comparison = NoComparison
    /\ pending = {}
    /\ cur = NoRow
    /\ preManifest = manifest
    /\ preFiles = files
    /\ prevApplied = FALSE
    /\ request = NoId
    /\ answer = NoAnswer
    /\ requests = <<>>
    /\ accessRequest = NoAccessRequest
    /\ accessAnswer = NoAnswer
    /\ matches = NoMatches
    /\ landed = "none"
    /\ written = NothingWritten

SpecAccess == InitAccess /\ [][NextResolver]_vars

\* ------------------------------------------------------------------ claims
\* The run is an apply-mode run that completed.
Applied == pc = "done" /\ execute

\* C1: when a step of execute_sync_operations raises, the manifest and files
\* tables after the run are the tables before the run.
C1_RollbackRestoresRegistry ==
    pc = "failed" => manifest = preManifest /\ files = preFiles

\* C2: after an apply-mode run that completed, the number_of_files of every
\* manifest row is the number of files rows whose hubmap_id is the row's
\* hubmap_id.
C2_FileCountIsChildCount ==
    Applied => \A b \in manifest :
                 b.number_of_files = Cardinality(ChildFiles(files, b.hubmap_id))

\* Every files row's hubmap_id is the hubmap_id of a manifest row.
ReferentialIntegrity(m, fs) == \A f \in fs : \E b \in m : b.hubmap_id = f.hubmap_id

\* C3: after an apply-mode run that completed and that started from a
\* registry with referential integrity, the registry has referential
\* integrity.
C3_ReferentialIntegrityKept ==
    (Applied /\ ReferentialIntegrity(preManifest, preFiles))
        => ReferentialIntegrity(manifest, files)

\* The identifiers of the upstream catalogs: the uuids the Search API
\* returns, and the file uuids the UUID API holds for those datasets.
UpstreamDatasetIds == {Uuid(d) : d \in published}
UpstreamFileIds == {FileUuid(f) : f \in {g \in FileIds : Parent(g) \in published}}

\* C4: a row that an apply-mode run has deleted from manifest or files has an
\* identifier that the upstream catalog no longer holds.
C4_DeletesOnlyWhatUpstreamDropped ==
    (pc \in ApplyPcs \cup {"done", "failed"}) =>
        /\ \A b \in preManifest :
             (\A r \in manifest : r.uuid # b.uuid) => b.uuid \notin UpstreamDatasetIds
        /\ \A f \in preFiles :
             f \notin files => f.file_uuid \notin UpstreamFileIds

\* The comparison of the current run has been computed.
Compared == pc \in ApplyPcs \cup {"done", "failed"}

\* C5: when the previous run was an apply-mode run that completed, the four
\* lists the current run computes are empty.
C5_SecondRunFindsNothing ==
    (prevApplied /\ Compared) =>
        /\ comparison.datasets_to_add = {}
        /\ comparison.datasets_to_delete = {}
        /\ comparison.files_to_add = {}
        /\ comparison.files_to_delete = {}

\* C6: compare_and_identify_missing returns the four set differences of the
\* identifiers of its inputs, for every input run_sync passes to it.
C6_CompareReturnsDifferences ==
    (pc \notin {"idle", "aborted"}) =>
        LET search_uuids == {r.uuid : r \in search_datasets}
            drs_uuids == {r.uuid : r \in drs_datasets}
            uuid_file_ids == {r.uuid : r \in uuid_files}
            drs_file_ids == {r.file_id : r \in drs_files}
            to_add == {r.uuid : r \in comparison.datasets_to_add}
            to_delete == {r.uuid : r \in comparison.datasets_to_delete}
            files_to_add == {r.uuid : r \in comparison.files_to_add}
            files_to_delete == {r.file_id : r \in comparison.files_to_delete}
        IN  /\ ~comparison.raised
            /\ to_add = search_uuids \ drs_uuids
            /\ to_delete = drs_uuids \ search_uuids
            /\ files_to_add = uuid_file_ids \ drs_file_ids
            /\ files_to_delete = drs_file_ids \ uuid_file_ids
            /\ to_add \cap to_delete = {}
            /\ files_to_add \cap files_to_delete = {}

\* C7: after an apply-mode run that completed, no files row is stored under
\* a dataset of datasets_to_delete, be it under the dataset's hubmap_id (as
\* the rows the resolver joins) or under its uuid (as the applier stores).
C7_NoFileOfDeletedDataset ==
    Applied => \A dataset \in comparison.datasets_to_delete :
                 /\ ChildFiles(files, dataset.hubmap_id) = {}
                 /\ ChildFiles(files, dataset.uuid) = {}

\* The bundles of the registry the run started from whose row is gone from m.
DeletedBundles(m) == {b \in preManifest : \A r \in m : r.uuid # b.uuid}

\* C8: in step 4 the files rows of a dataset are deleted before its manifest
\* row: at no point of a run, inside the applier's connection or in the
\* committed tables, is a manifest row gone while a files row whose hubmap_id
\* is that row's hubmap_id exists.
C8_FilesDeletedBeforeBundle ==
    (pc \in ApplyPcs \cup {"done", "failed"}) =>
        /\ \A b \in DeletedBundles(txManifest) : ChildFiles(txFiles, b.hubmap_id) = {}
        /\ \A b \in DeletedBundles(manifest) : ChildFiles(files, b.hubmap_id) = {}

\* C8's case: the loop of step 4 has deleted a manifest row whose files rows
\* were still there when step 4 began.
C8_Witness ==
    /\ pc = "step4"
    /\ \E b \in DeletedBundles(txManifest) :
         /\ ChildFiles(files, b.hubmap_id) # {}
         /\ ChildFiles(txFiles, b.hubmap_id) = {}

\* The tables after the five steps of execute_sync_operations.
PostManifest ==
    UpdateManifestRows(
        {r \in InsertDatasetsRows(preManifest, comparison, uuid_files) :
            r.uuid \notin {x.uuid : x \in comparison.datasets_to_delete}},
        {r \in DeleteFilesRows(InsertFilesRows(preFiles, comparison), comparison) :
            r.hubmap_id \notin {x.hubmap_id : x \in comparison.datasets_to_delete}})

PostFiles ==
    {r \in DeleteFilesRows(InsertFilesRows(preFiles, comparison), comparison) :
        r.hubmap_id \notin {x.hubmap_id : x \in comparison.datasets_to_delete}}

\* C9: during and after an apply-mode run, the committed tables are the
\* tables before the run or the tables after all five steps.
C9_CommittedIsPreOrPost ==
    (pc \in ApplyPcs \cup {"done", "failed"} /\ execute) =>
        \/ manifest = preManifest /\ files = preFiles
        \/ manifest = PostManifest /\ files = PostFiles

\* C10: when exactly one manifest row has the requested identifier,
\* get_drs_object answers the bundle, whether or not a files row has that
\* file_uuid; and the object lookup is run only when no manifest row has it.
C10_BundleWinsTie ==
    (request \in Ids) =>
        /\ Cardinality({b \in manifest : b.hubmap_id = request}) = 1
             => answer.kind = "bundle" /\ answer.status = 200 /\ answer.id = request
        /\ (\E i \in 1..Len(answer.lookups) : answer.lookups[i] = "object lookup")
             => {b \in manifest : b.hubmap_id = request} = {}

\* C10's case: the identifier is the hubmap_id of one manifest row and the
\* file_uuid of a files row, and the bundle is the answer.
C10_Witness ==
    /\ request \in Ids
    /\ Cardinality({b \in manifest : b.hubmap_id = request}) = 1
    /\ \E f \in files : f.file_uuid = request
    /\ answer.kind = "bundle"
    /\ answer.id = request

\* No two manifest rows have the same hubmap_id and no two files rows have
\* the same file_uuid.
UniqueIdentifiers ==
    /\ \A b1 \in manifest, b2 \in manifest : b1.hubmap_id = b2.hubmap_id => b1 = b2
    /\ \A f1 \in files, f2 \in files : f1.file_uuid = f2.file_uuid => f1 = f2

\* C11: in a registry with unique identifiers, get_drs_object answers the
\* bundle view for an identifier of one manifest row and no files row, the
\* object view for an identifier of one files row and no manifest row, and
\* 404 "No object found." for an identifier of neither.
C11_ResolvesByKind ==
    (request \in Ids /\ UniqueIdentifiers) =>
        LET bundles == {b \in manifest : b.hubmap_id = request}
            objects == {f \in files : f.file_uuid = request}
        IN  /\ (Cardinality(bundles) = 1 /\ objects = {}) =>
                   /\ answer.kind = "bundle" /\ answer.status = 200 /\ answer.id = request
                   /\ answer.contents = {f.file_uuid : f \in {g \in files : g.hubmap_id = request}}
            /\ (Cardinality(objects) = 1 /\ bundles = {}) =>
                   /\ answer.kind = "object" /\ answer.status = 200 /\ answer.id = request
                   /\ \A f \in objects : answer.size = f.size
            /\ (bundles = {} /\ objects = {}) =>
                   answer.kind = "No object found." /\ answer.status = 404

\* C11's case: the identifier is that of one files row and of no manifest
\* row, the file's bundle is not in the registry, and the object is the answer.
C11_Witness ==
    /\ request \in Ids
    /\ UniqueIdentifiers
    /\ {b \in manifest : b.hubmap_id = request} = {}
    /\ \E f \in files :
         /\ f.file_uuid = request
         /\ \A b \in manifest : b.hubmap_id # f.hubmap_id
    /\ answer.kind = "object"
    /\ answer.id = request

\* C12: get_drs_object answers 404 "More than one object found." when more
\* than one manifest row has the identifier, or when no manifest row and
\* more than one files row has it, and the access lookup when more than one
\* files row has it; get_drs_object answers "No object found." only when no
\* manifest row and no files row has the identifier.
C12_AmbiguousIsIntegrityViolation ==
    /\ (request \in Ids) =>
          LET bundles == {b \in manifest : b.hubmap_id = request}
              objects == {f \in files : f.file_uuid = request}
          IN  /\ (Cardinality(bundles) > 1 \/ (bundles = {} /\ Cardinality(objects) > 1)) =>
                     answer.kind = "More than one object found." /\ answer.status = 404
              /\ answer.kind = "No object found." => (bundles = {} /\ objects = {})
    /\ (accessRequest.id \in Ids) =>
          (Cardinality({f \in files : f.file_uuid = accessRequest.id}) > 1 =>
              accessAnswer.kind = "More than one object found." /\ accessAnswer.status = 404)

\* C12's case: two manifest rows have the requested identifier.
C12_Witness ==
    /\ request \in Ids
    /\ Cardinality({b \in manifest : b.hubmap_id = request}) > 1
    /\ answer.kind = "More than one object found."

\* C13: a step that changes table manifest or table files is a step of
\* execute_sync_operations: the requests to the three endpoints of app.py
\* leave both tables, and the applier's view of them, as they are.
C13_ReadsLeaveRegistry ==
    [][\/ pc \in ApplyPcs
       \/ /\ manifest' = manifest /\ files' = files
          /\ txManifest' = txManifest /\ txFiles' = txFiles]_vars

\* C13's case: a request was answered with "More than one object found."
\* from a registry that holds rows.
C13_Witness ==
    /\ request \in Ids
    /\ answer.kind = "More than one object found."
    /\ manifest # {}
    /\ files # {}

\* C14: when the file listing of a published dataset fails, every published
\* dataset is still requested, the files listed for the datasets that answer
\* 200 are in the fetched result, and those that are not in table files are
\* in files_to_add.
C14_OtherDatasetsStillFetched ==
    (pc \notin {"idle", "aborted"} /\ \E x \in published : response[x] \in FailedResponses) =>
        \A d \in published :
            /\ \E i \in 1..Len(requests) : requests[i] = <<d, "url">>
            /\ response[d] = Ok200 =>
                  /\ Listing(d) \subseteq uuid_files
                  /\ \A file_info \in Listing(d) :
                       (\A r \in preFiles : r.file_uuid # file_info.uuid)
                           => file_info \in comparison.files_to_add

\* The status the loop ends with for dataset d: that of the redirect target
\* when the first answer is a 303 with a target.
FinalStatus(d) ==
    IF response[d].first = "303" /\ response[d].target
    THEN response[d].second ELSE response[d].first

\* C15: a dataset whose listing ends with a 303 without a target, or with a
\* status other than 200 and 404, has an entry in the error list and no file
\* in the fetched result; a dataset whose listing ends with 404 has no entry.
C15_FailedListingIsLogged ==
    (pc = "fetched") =>
        \A d \in published :
            /\ (\/ response[d].first = "303" /\ ~response[d].target
                \/ FinalStatus(d) \in {"303", "500"}) =>
                   /\ d \in errors
                   /\ \A file_info \in uuid_files : file_info.dataset_uuid # Uuid(d)
            /\ FinalStatus(d) = "404" => d \notin errors

\* The number of calls of requests.get of the given kind for dataset d.
Calls(d, kind) == Cardinality({i \in 1..Len(requests) : requests[i] = <<d, kind>>})

\* C16: for each dataset the fetch issues one request to the files url and
\* at most one more, to the target of a 303: none without a 303 with a
\* target, one with it, also when the target answers 303 again.
C16_RedirectFollowedOnce ==
    (pc = "fetched") =>
        \A d \in published :
            /\ Calls(d, "url") = 1
            /\ Calls(d, "redirect_url") =
                  (IF response[d].first = "303" /\ response[d].target THEN 1 ELSE 0)
            /\ (response[d].first = "303" /\ response[d].target /\ response[d].second = "303") =>
                  \A file_info \in uuid_files : file_info.dataset_uuid # Uuid(d)

\* C16's case: the target of a 303 answers 303, and the fetch has issued its
\* two requests for the dataset.
C16_Witness ==
    /\ pc = "fetched"
    /\ \E d \in published :
         /\ response[d].first = "303" /\ response[d].target /\ response[d].second = "303"
         /\ Calls(d, "url") = 1
         /\ Calls(d, "redirect_url") = 1
         /\ d \in errors

\* The positions of the slashes of a path, and what follows the second one.
SlashAt(path) == {i \in 1..Len(path) : path[i] = "/"}

AfterSecondSlash(path) ==
    LET i == CHOOSE k \in SlashAt(path) : Cardinality({j \in SlashAt(path) : j < k}) = 1
    IN  SubSeq(path, i + 1, Len(path))

\* C17: for a files row whose name has three segments or more (two slashes
\* or more), the url of the object view and the url of the access lookup
\* are both "https://" ACCESS_DOMAIN "/" followed by what the name holds
\* after its second slash.
C17_AccessUrlDropsTwoSegments ==
    \A f \in files :
        Cardinality(SlashAt(f.name)) >= 2 =>
            LET url == <<"https://", ACCESS_DOMAIN, "/">> \o AfterSecondSlash(f.name)
            IN  /\ (request = f.file_uuid /\ {b \in manifest : b.hubmap_id = request} = {}) =>
                       answer.kind = "object" /\ answer.access_url = url
                /\ accessRequest.id = f.file_uuid =>
                       accessAnswer.kind = "url" /\ accessAnswer.access_url = url

\* C17's case: the access lookup has answered for a file whose name holds a
\* slash after its first two segments.
C17_Witness ==
    \E f \in files :
        /\ Cardinality(SlashAt(f.name)) >= 3
        /\ accessRequest.id = f.file_uuid
        /\ accessAnswer.kind = "url"
        /\ Len(accessAnswer.access_url) > 4

\* C18: for a files row whose name has fewer than two segments (no slash),
\* the object resolution and the access lookup answer 404 "No object
\* found." and no url.
C18_ShortPathIsNotFound ==
    \A f \in files :
        SlashAt(f.name) = {} =>
            /\ (request = f.file_uuid /\ {b \in manifest : b.hubmap_id = request} = {}) =>
                   /\ answer.kind = "No object found." /\ answer.status = 404
                   /\ answer.access_url = NoUrl
            /\ accessRequest.id = f.file_uuid =>
                   /\ accessAnswer.kind = "No object found." /\ accessAnswer.status = 404
                   /\ accessAnswer.access_url = NoUrl

\* C19: the access lookup answers 404 "No object found." for an identifier
\* of no files row, also when a manifest row has it, and the url built from
\* the row's name for an identifier of exactly one files row, also when a
\* manifest row has it.
C19_AccessLookupReadsFilesOnly ==
    (accessRequest.id \in Ids) =>
        LET objects == {f \in files : f.file_uuid = accessRequest.id}
        IN  /\ objects = {} =>
                   accessAnswer.kind = "No object found." /\ accessAnswer.status = 404
            /\ Cardinality(objects) = 1 =>
                   /\ accessAnswer.kind = "url" /\ accessAnswer.status = 200
                   /\ \A f \in objects : accessAnswer.access_url = AccessUrl(f.name)

\* C20: the access lookup answers no url for an access method other than
\* "https".
C20_UnknownMethodIsRefused ==
    (accessRequest.id \in Ids /\ accessRequest.access_method # "https") =>
        accessAnswer.kind \notin {"url", "object", "bundle"} /\ accessAnswer.access_url = NoUrl

\* C21: the contents of a bundle view are the file_uuid of the files rows
\* whose hubmap_id is the bundle's, and of no other row; and when the view is
\* built after an apply-mode run that completed, the files the run inserted
\* for the bundle's dataset are among them.
C21_ContentsAreTheChildren ==
    [][(answer' # answer /\ answer'.kind = "bundle") =>
          /\ answer'.contents = {f.file_uuid : f \in {g \in files : g.hubmap_id = request'}}
          /\ Applied =>
                \A file_info \in comparison.files_to_add :
                    (\E b \in manifest : b.hubmap_id = request' /\ b.uuid = file_info.dataset_uuid)
                        => file_info.uuid \in answer'.contents]_vars

\* The bytes of a unit letter, and the largest unit not above n.
BytesOf(unit) ==
    IF unit = "G" THEN 1073741824 ELSE IF unit = "M" THEN 1048576
    ELSE IF unit = "K" THEN 1024 ELSE 1

LargestUnit(n) ==
    IF n >= 1073741824 THEN "G" ELSE IF n >= 1048576 THEN "M"
    ELSE IF n >= 1024 THEN "K" ELSE "B"

\* n / unit in tenths, rounded half away from zero (unit >= 1024).
HalfAwayTenths(n, unit) ==
    LET r == n % unit
        x == (10 * (r \div 1024)) + ((10 * (r % 1024)) \div 1024)
        t == (10 * (n \div unit)) + (x \div (unit \div 1024))
        rest == ((x % (unit \div 1024)) * 1024) + ((10 * (r % 1024)) % 1024)
    IN  IF 2 * rest >= unit THEN t + 1 ELSE t

\* The byte sum of the files fetched for the dataset of manifest row b.
FetchedBytes(b) == SumSizes({r \in uuid_files : r.dataset_uuid = b.uuid})

\* C22: the pretty_size of an inserted manifest row has the largest unit not
\* above the byte sum n, and as number n itself for B, and n / unit rounded
\* to one decimal, ties away from zero, for the other units.
C22_FormatRoundsHalfAway ==
    \A b \in manifest \ preManifest :
        LET n == FetchedBytes(b)
        IN  /\ b.pretty_size.unit = LargestUnit(n)
            /\ n < 1024 => (b.pretty_size.num = n /\ ~b.pretty_size.frac)
            /\ n >= 1024 =>
                  /\ b.pretty_size.frac
                  /\ b.pretty_size.num = HalfAwayTenths(n, BytesOf(LargestUnit(n)))

C24_NextRunReconciles ==
    (Applied /\ prevApplied /\ landed = "previous run") =>
        /\ {b.uuid : b \in manifest} = UpstreamDatasetIds
        /\ {f.file_uuid : f \in files} = UpstreamFileIds
\* C25: a run without the execute flag that gets as far as the exports
\* writes the four lists of its comparison (a file for each list that is not
\* empty) and leaves tables manifest and files as they were; the registry
\* changes only in the steps of execute_sync_operations, which run only
\* with the execute flag; and what steps 1 to 4 insert and delete is what
\* the run has written to manifest.csv, files.csv, files_to_delete.csv and
\* datasets_to_delete.csv.
C25_DryRunOnlyExports ==
    [][/\ (pc \notin ApplyPcs /\ pc' = "done" /\ ~execute') =>
             /\ manifest' = manifest /\ files' = files
             /\ written'.manifest.written = (comparison'.datasets_to_add # {})
             /\ written'.files.written = (comparison'.files_to_add # {})
             /\ written'.datasets_to_delete.written = (comparison'.datasets_to_delete # {})
             /\ written'.files_to_delete.written = (comparison'.files_to_delete # {})
             /\ {r.uuid : r \in written'.manifest.rows}
                    = {r.uuid : r \in comparison'.datasets_to_add}
             /\ {r.file_uuid : r \in written'.files.rows}
                    = {r.uuid : r \in comparison'.files_to_add}
             /\ written'.datasets_to_delete.rows = comparison'.datasets_to_delete
             /\ written'.files_to_delete.rows = comparison'.files_to_delete
       /\ (manifest' # manifest \/ files' # files) => (execute /\ pc \in ApplyPcs)
       /\ pc' \in ApplyPcs => execute'
       /\ (pc = "step1" /\ pc' = "step2") =>
             (manifest' = manifest \cup written.manifest.rows /\ files' = files)
       /\ (pc = "step2" /\ pc' = "step3") =>
             (files' = files \cup written.files.rows /\ manifest' = manifest)
       /\ (pc = "step3" /\ pc' = "step4") =>
             /\ files' = {r \in files :
                             r.file_uuid \notin {x.file_id : x \in written.files_to_delete.rows}}
             /\ manifest' = manifest
       /\ (pc = "step4" /\ pc' = "step5") =>
             manifest' = {r \in manifest :
                             r.uuid \notin {x.uuid : x \in written.datasets_to_delete.rows}}
      ]_vars

\* A run without the execute flag, after a run that applied its lists, has
\* written export files and is over.
C25_Witness ==
    /\ pc = "done" /\ ~execute /\ prevApplied
    /\ written.files.written
    /\ manifest = preManifest /\ files = preFiles
\* C26: after step 5 of a completed apply-mode run, the pretty_size of every
\* manifest row is what the formatter of step 1 gives for the sum of the
\* sizes of the files rows under the row's hubmap_id, sums below 1024 and
\* rows without files included.
C26_RecomputedSizeIsFormat ==
    Applied =>
        \A b \in manifest :
            b.pretty_size = PyFormat(SumSizes(ChildFiles(files, b.hubmap_id)))
\* C27: when the registry before an apply-mode run has no two manifest rows
\* with the same uuid or the same hubmap_id and no two files rows with the
\* same file_uuid, it has none during and after the run either, whatever
\* the reads of the registry returned and also when the fetched listings
\* hold a file uuid more than once.
C27_IdentifiersStayUnique ==
    (pc \in ApplyPcs \cup {"done", "failed"}) =>
        /\ \A b1 \in manifest, b2 \in manifest :
              (b1.uuid = b2.uuid \/ b1.hubmap_id = b2.hubmap_id) => b1 = b2
        /\ \A f1 \in files, f2 \in files : f1.file_uuid = f2.file_uuid => f1 = f2
\* C28: a run for which the Search API fails or returns no dataset ends
\* aborted: it has requested no file listing, computed no comparison and
\* written no export file, and tables manifest and files are as they were,
\* with the execute flag as without it.
C28_EmptyCatalogAborts ==
    [][(pc \notin ApplyPcs /\ (~searchOk \/ published = {})) =>
          /\ pc' = "aborted"
          /\ requests' = <<>>
          /\ uuid_files' = {}
          /\ comparison' = NoComparison
          /\ written' = NothingWritten
          /\ manifest' = manifest /\ files' = files
          /\ txManifest' = txManifest /\ txFiles' = txFiles]_vars

\* A run with the execute flag has aborted on a registry that holds bundles
\* and files.
C28_Witness ==
    /\ pc = "aborted" /\ execute
    /\ manifest # {} /\ files # {}
    /\ search_datasets = {}
\* C29: the object lookup of get_drs_object (reached when no manifest row
\* has the identifier) and that of the access lookup answer "More than one
\* object found." only when more than one files row has the requested
\* file_uuid; when exactly one has it, get_drs_object answers the object
\* view of that row, whatever number of manifest rows has the row's
\* hubmap_id.
C29_ViolationNeedsTwoFiles ==
    /\ (request \in Ids /\ \A b \in manifest : b.hubmap_id # request) =>
          LET objects == {f \in files : f.file_uuid = request}
          IN  /\ answer.kind = "More than one object found." => Cardinality(objects) > 1
              /\ Cardinality(objects) = 1 =>
                     /\ answer.kind = "object" /\ answer.status = 200
                     /\ \A f \in objects : answer.id = f.file_uuid /\ answer.size = f.size
    /\ (accessRequest.id \in Ids) =>
          (accessAnswer.kind = "More than one object found." =>
              Cardinality({f \in files : f.file_uuid = accessRequest.id}) > 1)
====
